---- MODULE Spec2Model ----
(***************************************************************************)
(* PBPU-Emu (pbpu.c): a 4-bit CPU emulator.  The machine state is the set  *)
(* of globals of pbpu.c; SimStep is one fetch/decode/execute cycle; main   *)
(* loads a program file into rom and then alternates SimStep with the      *)
(* window updates that consume and clear the three dirty flags.            *)
(***************************************************************************)
EXTENDS Integers, Naturals, Sequences, FiniteSets, TLC

(* ------------------------------ bounds -------------------------------- *)

\* Number of SimStep calls explored per run of main.
MaxSteps == 8

\* Largest fill offset of the buffers WriteNibble / ReadNibble are tried on.
MaxNibFill == 15

\* Rows of the terminal main runs in (scrHeight after getmaxyx(stdscr, ...));
\* the memory window is that high.
ScrHeight == 24

(* ------------------------- program constants --------------------------- *)

RomSize == 256
RamSize == 128

OP_NOP == 0
OP_ADD == 1
OP_SUB == 2
OP_WT1 == 3
OP_WT2 == 4
OP_WTX == 5
OP_WTY == 6
OP_WTZ == 7
OP_ZTR == 8
OP_RTZ == 9
OP_PC1 == 10
OP_PC2 == 11
OP_JMP == 12
OP_RTX == 13
OP_RTY == 14
OP_USC == 15

Nibble == 0..15

(* ------------------------- C integer operators ------------------------- *)

\* a & b on non-negative integers
RECURSIVE BitAnd(_, _)
BitAnd(a, b) ==
    IF a = 0 \/ b = 0 THEN 0
    ELSE (a % 2) * (b % 2) + 2 * BitAnd(a \div 2, b \div 2)

\* a | b on non-negative integers
RECURSIVE BitOr(_, _)
BitOr(a, b) ==
    IF a = 0 THEN b
    ELSE IF b = 0 THEN a
    ELSE (IF a % 2 = 1 \/ b % 2 = 1 THEN 1 ELSE 0) + 2 * BitOr(a \div 2, b \div 2)

\* a << n and a >> n (on int, after integer promotion)
Shl(a, n) == a * (2 ^ n)
Shr(a, n) == a \div (2 ^ n)

\* conversion of an int to uint8_t
U8(v) == v % 256

\* (uint8_t) of a bool
B2N(b) == IF b THEN 1 ELSE 0

Min(a, b) == IF a < b THEN a ELSE b

(* --------------------------- memory subsystem -------------------------- *)

\* Byte index used by WriteNibble / ReadNibble: buff[addr/2]
NibIndex(addr) == addr \div 2

WriteNibbleKeepsHigh(buff, addr, val) ==
    IF addr % 2 = 0
    THEN [buff EXCEPT ![NibIndex(addr)] =
              U8(BitOr(BitAnd(buff[NibIndex(addr)], 240), BitAnd(val, 15)))]
    ELSE [buff EXCEPT ![NibIndex(addr)] =
              U8(BitOr(buff[NibIndex(addr)], Shl(BitAnd(val, 15), 4)))]

WriteNibbleWholeByte(buff, addr, val) ==
    [buff EXCEPT ![NibIndex(addr)] = BitAnd(val, 15)]

WriteNibble(buff, addr, val) ==
    IF addr % 2 = 0
    THEN [buff EXCEPT ![NibIndex(addr)] =
              U8(BitOr(BitAnd(buff[NibIndex(addr)], 240), BitAnd(val, 15)))]
    ELSE [buff EXCEPT ![NibIndex(addr)] =
              U8(BitOr(BitAnd(buff[NibIndex(addr)], 15), Shl(BitAnd(val, 15), 4)))]

ReadNibbleIgnoresParity(buff, addr) ==
    BitAnd(buff[NibIndex(addr)], 15)

ReadNibble(buff, addr) ==
    IF addr % 2 = 0
    THEN BitAnd(buff[NibIndex(addr)], 15)
    ELSE BitAnd(Shr(buff[NibIndex(addr)], 4), 15)

(* ------------------------- pieces of SimStep --------------------------- *)

\* rom[pcPtr] >> 4  and  rom[pcPtr] & 0xF
DecodeOp(byte) == Shr(byte, 4)
DecodeImm(byte) == BitAnd(byte, 15)

\* useCarry ? (uint8_t)carry : 0
CarryIn(uc, c) == IF uc THEN B2N(c) ELSE 0

\* OP_ADD: regZ = regX + regY + cin;  carry = (regZ >> 4) & 0x1
AddResult(x, y, cin) == U8(x + y + cin)

AddCarryBit3(z) == BitAnd(Shr(z, 3), 1) = 1

AddCarry(z) == BitAnd(Shr(z, 4), 1) = 1

\* OP_SUB: subTmp = regY + cin;  regZ = regX - subTmp;  carry = regX >= subTmp
SubOperand(y, cin) == U8(y + cin)
SubResult(x, s) == U8(x - s)

SubCarryStrict(x, s) == x > s

SubCarry(x, s) == x >= s

\* OP_WT1 / OP_PC2 write the high nibble, OP_WT2 / OP_PC1 the low nibble
SetHighNibble(r, imm) == U8(BitOr(BitAnd(r, 15), Shl(imm, 4)))

SetLowNibbleAsHigh(r, imm) == U8(BitOr(BitAnd(r, 15), Shl(imm, 4)))

SetLowNibble(r, imm) == U8(BitOr(BitAnd(r, 240), imm))

\* OP_JMP: tmpPcPtr--
JmpNoDecrement(t) == t

JmpDecrement(t) == U8(t - 1)

\* OP_ZTR: screenDirty = (locPtr < 4)
ScreenRegionEight(l) == l < 8

ScreenRegionInclusive(l) == l <= 4

ScreenRegionNarrow(l) == l < 3

ScreenRegion(l) == l < 4

\* LimitRegs: reg &= 0xF
LimitRegsNoMask(r) == r

LimitRegs(r) == BitAnd(r, 15)

\* pcPtr++
IncPcSaturating(p) == IF p = 255 THEN 255 ELSE p + 1

IncPc(p) == U8(p + 1)

\* The opcodes whose case sets regsDirty = true
RegsDirtyOps ==
    {OP_ADD, OP_SUB, OP_WT1, OP_WT2, OP_WTX, OP_WTY, OP_WTZ,
     OP_RTZ, OP_PC1, OP_PC2, OP_RTX, OP_RTY}

(* ------------------------------- state --------------------------------- *)

VARIABLES
    rom, ram,                       \* uint8_t rom[256], ram[128]
    pcPtr, tmpPcPtr, locPtr,        \* uint8_t
    regX, regY, regZ,               \* uint8_t, kept in 0..15 by LimitRegs
    useCarry, carry,                \* bool
    ramDirty, regsDirty, screenDirty,
    mainAt,                         \* where main is: "load", "step", "update", "exit"
    exitStatus,                     \* process exit status, -1 while running
    steps,                          \* number of SimStep calls made so far
    pre,                            \* the state SimStep started from, and what it decoded
    nib,                            \* one WriteNibble / ReadNibble round trip
    readBytes,                      \* size_t readBytes of main, 0 before fread
    regWin, scrWin, memWin,         \* what the three ncurses windows show
    iters,                          \* completed iterations of main's loop
    ran,                            \* which updates the last completed iteration invoked
    stored                          \* per nibble address, the last value a ZTR stored (-1: none)

machine == <<ram, pcPtr, tmpPcPtr, locPtr, regX, regY, regZ, useCarry, carry>>
dirty == <<ramDirty, regsDirty, screenDirty>>
windows == <<regWin, scrWin, memWin>>
history == <<iters, ran, stored>>
vars == <<rom, machine, dirty, mainAt, exitStatus, steps, pre, nib,
          readBytes, windows, history>>

Snapshot(op, imm) ==
    [op |-> op, imm |-> imm,
     pcPtr |-> pcPtr, tmpPcPtr |-> tmpPcPtr, locPtr |-> locPtr,
     regX |-> regX, regY |-> regY, regZ |-> regZ,
     useCarry |-> useCarry, carry |-> carry, ram |-> ram,
     ramDirty |-> ramDirty, regsDirty |-> regsDirty, screenDirty |-> screenDirty]

ZeroRam == [i \in 0..(RamSize - 1) |-> 0]
ZeroRom == [i \in 0..(RomSize - 1) |-> 0]

NibIdle == [at |-> "idle", addr |-> 0, val |-> 0, out |-> 0, old |-> ZeroRam]

\* Positions of the memory window's cells: InitMemory prints row r of the
\* dump on line r + 2, "%02X: " from column 1 and then 16 cells "%01X ",
\* so cell c of the row starts at column 5 + 2c; UpdateMemory addresses the
\* cell of nibble a as line 2 + a/16, column 5 + (a%16)*2.
MemCellColPacked(a) == 5 + (a % 16)

MemCellCol(a) == 5 + ((a % 16) * 2)
MemCellRow(a) == 2 + (a \div 16)
MemCells == {<<2 + r, 5 + (c * 2)>> : r \in 0..15, c \in 0..15}

\* A window nothing has been drawn in: -1 stands for a blank character cell;
\* a pixel of the screen window is TRUE when "####" is drawn there and FALSE
\* when it holds blanks.
BlankRegWin == [X |-> -1, Y |-> -1, Z |-> -1, PC |-> -1, LC |-> -1]
BlankScrWin == [row \in 0..(4 * 2 - 1) |-> [col \in 0..3 |-> FALSE]]
BlankMemWin == [cell \in MemCells |-> -1]

NoneRan == [regs |-> FALSE, screen |-> FALSE, drawn |-> FALSE, mem |-> FALSE]
NoneStored == [a \in 0..255 |-> -1]

\* Globals as the C runtime leaves them before main: zeroed, except the
\* three dirty flags, which are initialised to true.
Globals ==
    /\ rom = ZeroRom
    /\ pcPtr = 0 /\ tmpPcPtr = 0 /\ locPtr = 0
    /\ regX = 0 /\ regY = 0 /\ regZ = 0
    /\ useCarry = FALSE /\ carry = FALSE
    /\ ramDirty = TRUE /\ regsDirty = TRUE /\ screenDirty = TRUE
    /\ mainAt = "load"
    /\ exitStatus = -1
    /\ steps = 0
    /\ readBytes = 0
    /\ regWin = BlankRegWin
    /\ scrWin = BlankScrWin
    /\ memWin = BlankMemWin
    /\ iters = 0
    /\ ran = NoneRan
    /\ stored = NoneStored

Init ==
    /\ Globals
    /\ ram = ZeroRam
    /\ pre = Snapshot(OP_NOP, 0)
    /\ nib = NibIdle

(* ----------------------------- program files --------------------------- *)

Ins(op, imm) == op * 16 + imm

\* one-instruction programs: every byte value
SingleProgs == {<<b>> : b \in 0..255}

\* X = a, Y = b, then ADD or SUB
Alu3Progs ==
    {<<Ins(OP_WTX, a), Ins(OP_WTY, b), Ins(op, 0)>> :
        a \in Nibble, b \in Nibble, op \in {OP_ADD, OP_SUB}}

\* produce carry = c0, optionally toggle useCarry, then ADD or SUB on a, b
AluProgs ==
    {<<Ins(OP_WTX, 15), Ins(OP_WTY, c0), Ins(OP_ADD, 0), Ins(u, 0),
       Ins(OP_WTX, a), Ins(OP_WTY, b), Ins(op, 0)>> :
        c0 \in {0, 1}, u \in {OP_NOP, OP_USC},
        a \in Nibble, b \in Nibble, op \in {OP_ADD, OP_SUB}}

\* build a jump target in either order, then JMP twice
JmpProgs ==
    {<<Ins(OP_PC1, a), Ins(OP_PC2, b), Ins(OP_JMP, 0), Ins(OP_JMP, 0)>> :
        a \in Nibble, b \in Nibble}
    \cup
    {<<Ins(OP_PC2, b), Ins(OP_PC1, a), Ins(OP_JMP, 0), Ins(OP_JMP, 0)>> :
        a \in Nibble, b \in Nibble}

\* point loc at nibble 16a+b, store v there and read it back
StoreProgs ==
    {<<Ins(OP_WT1, a), Ins(OP_WT2, b), Ins(OP_WTZ, v), Ins(OP_ZTR, 0),
       Ins(OP_RTX, 0)>> :
        a \in Nibble, b \in Nibble, v \in Nibble}

\* the same with the two halves of loc written in the other order
LocProgs ==
    {<<Ins(OP_WT2, b), Ins(OP_WT1, a), Ins(OP_WTZ, 9), Ins(OP_ZTR, 0)>> :
        a \in Nibble, b \in Nibble}

\* store v at nibble b, store w at nibble c, then load from nibble b again
KeepProgs ==
    {<<Ins(OP_WT2, b), Ins(OP_WTZ, v), Ins(OP_ZTR, 0),
       Ins(OP_WT2, c), Ins(OP_WTZ, w), Ins(OP_ZTR, 0),
       Ins(OP_WT2, b), Ins(rd, 0)>> :
        b \in {0, 1, 5}, v \in Nibble, c \in {0, 1, 4, 5}, w \in {0, 6, 15},
        rd \in {OP_RTX, OP_RTY, OP_RTZ}}

\* a file one byte longer than fread is asked to read
LongProgs == {[i \in 1..RomSize |-> Ins(OP_NOP, 1)]}

Programs ==
    SingleProgs \cup Alu3Progs \cup AluProgs \cup JmpProgs \cup StoreProgs
    \cup LocProgs \cup KeepProgs \cup LongProgs

(* --------------------------------- main -------------------------------- *)

\* fread's count argument: sizeof(rom) - 1
ReadLimitWholeRom == RomSize

ReadLimit == RomSize - 1

\* fopen fails: "Program not found!", then fclose(NULL), whose behaviour is
\* undefined: the process either returns 1 or is killed by SIGSEGV (139).
ProgramNotFound ==
    /\ mainAt = "load"
    /\ mainAt' = "exit"
    /\ exitStatus' \in {1, 139}
    /\ UNCHANGED <<rom, machine, dirty, steps, pre, nib, readBytes, windows, history>>

\* fread returns 0: "Program is empty!", return 1
ProgramEmpty ==
    /\ mainAt = "load"
    /\ LET file == <<>>
       IN  /\ readBytes' = Min(Len(file), ReadLimit)
           /\ readBytes' <= 0
           /\ mainAt' = "exit"
           /\ exitStatus' = 1
    /\ UNCHANGED <<rom, machine, dirty, steps, pre, nib, windows, history>>

\* InitMemory(memWin): the dump as drawn once before the loop.  Rows are
\* drawn while row < h - 2 and addr < 0x100; every cell of a row prints
\* ReadNibble(ram, addr) with addr the address of the row's first cell.
InitMemory ==
    [cell \in MemCells |->
        LET row == cell[1] - 2
            addr == row * 16
        IN  IF row < ScrHeight - 2 /\ addr < 256
            THEN ReadNibble(ram, U8(addr))
            ELSE -1]

\* fread(rom, 1, sizeof(rom) - 1, prgFile) of a non-empty file, then
\* initscr, the newwin calls and InitMemory, up to the head of the loop
LoadProgram ==
    /\ mainAt = "load"
    /\ \E file \in Programs :
         /\ readBytes' = Min(Len(file), ReadLimit)
         /\ readBytes' > 0
         /\ rom' = [i \in 0..(RomSize - 1) |->
                       IF i < readBytes' THEN file[i + 1] ELSE rom[i]]
    /\ memWin' = InitMemory
    /\ mainAt' = "step"
    /\ UNCHANGED <<machine, dirty, exitStatus, steps, pre, nib, regWin, scrWin, history>>

\* void SimStep()
SimStep ==
    /\ mainAt = "step"
    /\ steps < MaxSteps
    /\ LET op  == DecodeOp(rom[pcPtr])
           imm == DecodeImm(rom[pcPtr])
           cin == CarryIn(useCarry, carry)
           addZ == AddResult(regX, regY, cin)
           subTmp == SubOperand(regY, cin)
           tmpJ == JmpDecrement(tmpPcPtr)
           xE == CASE op = OP_WTX -> imm
                   [] op = OP_RTX -> ReadNibble(ram, locPtr)
                   [] OTHER -> regX
           yE == CASE op = OP_WTY -> imm
                   [] op = OP_RTY -> ReadNibble(ram, locPtr)
                   [] OTHER -> regY
           zE == CASE op = OP_ADD -> addZ
                   [] op = OP_SUB -> SubResult(regX, subTmp)
                   [] op = OP_WTZ -> imm
                   [] op = OP_RTZ -> ReadNibble(ram, locPtr)
                   [] OTHER -> regZ
           pcE == IF op = OP_JMP THEN tmpJ ELSE pcPtr
       IN  /\ pre' = Snapshot(op, imm)
           /\ regX' = LimitRegs(xE)
           /\ regY' = LimitRegs(yE)
           /\ regZ' = LimitRegs(zE)
           /\ carry' = CASE op = OP_ADD -> AddCarry(addZ)
                         [] op = OP_SUB -> SubCarry(regX, subTmp)
                         [] OTHER -> carry
           /\ useCarry' = IF op = OP_USC THEN ~useCarry ELSE useCarry
           /\ locPtr' = CASE op = OP_WT1 -> SetHighNibble(locPtr, imm)
                          [] op = OP_WT2 -> SetLowNibble(locPtr, imm)
                          [] OTHER -> locPtr
           /\ tmpPcPtr' = CASE op = OP_PC1 -> SetLowNibble(tmpPcPtr, imm)
                            [] op = OP_PC2 -> SetHighNibble(tmpPcPtr, imm)
                            [] op = OP_JMP -> tmpJ
                            [] OTHER -> tmpPcPtr
           /\ ram' = IF op = OP_ZTR THEN WriteNibble(ram, locPtr, regZ) ELSE ram
           /\ regsDirty' = IF op \in RegsDirtyOps THEN TRUE ELSE regsDirty
           /\ ramDirty' = IF op = OP_ZTR THEN TRUE ELSE ramDirty
           /\ screenDirty' = IF op = OP_ZTR THEN ScreenRegion(locPtr) ELSE screenDirty
           /\ pcPtr' = IncPc(pcE)
           /\ stored' = IF op = OP_ZTR
                         THEN [stored EXCEPT ![locPtr] = regZ]
                         ELSE stored
    /\ steps' = steps + 1
    /\ mainAt' = "update"
    /\ UNCHANGED <<rom, exitStatus, nib, readBytes, windows, iters, ran>>

\* What a dirty flag is after `if (flag) { Update...(); flag = false; }`
ConsumeKeeps(flag) == flag

Consume(flag) == IF flag THEN FALSE ELSE flag

\* UpdateScreen: for (row = 0; row < 4*2; row++) ... ReadNibble(ram, row/2):
\* the nibble addresses the screen window renders
ScreenNibbles == {row \div 2 : row \in 0..(4 * 2 - 1)}

\* UpdateScreen(scrWin): nothing if !ramDirty; else line row shows nibble
\* row/2, pixel col lit iff (rowVal >> (3 - col)) & 0x1
UpdateScreen ==
    IF ~ramDirty THEN scrWin
    ELSE [row \in 0..(4 * 2 - 1) |->
            [col \in 0..3 |->
                BitAnd(Shr(ReadNibble(ram, row \div 2), 3 - col), 1) = 1]]

\* UpdateRegisters(regWin)
UpdateRegisters ==
    [X |-> regX, Y |-> regY, Z |-> regZ, PC |-> pcPtr, LC |-> locPtr]

\* UpdateMemory(memWin): one cell, the one of the current locPtr; a
\* position below the window's last line is not drawn
UpdateMemory ==
    IF MemCellRow(locPtr) < ScrHeight
          /\ <<MemCellRow(locPtr), MemCellCol(locPtr)>> \in MemCells
    THEN [memWin EXCEPT ![<<MemCellRow(locPtr), MemCellCol(locPtr)>>] =
             ReadNibble(ram, locPtr)]
    ELSE memWin

\* The rest of the loop body after SimStep(): the window updates, each of
\* which clears the flag it consumed.
\* (the disassembly window, redrawn by UpdateDisassembly in every
\* iteration, only reads rom and pcPtr and is not represented)
UpdateWindows ==
    /\ mainAt = "update"
    /\ regWin' = IF regsDirty THEN UpdateRegisters ELSE regWin
    /\ regsDirty' = Consume(regsDirty)
    /\ scrWin' = IF screenDirty THEN UpdateScreen ELSE scrWin
    /\ screenDirty' = Consume(screenDirty)
    /\ memWin' = IF ramDirty THEN UpdateMemory ELSE memWin
    /\ ramDirty' = Consume(ramDirty)
    /\ ran' = [regs |-> regsDirty, screen |-> screenDirty,
               drawn |-> screenDirty /\ ramDirty, mem |-> ramDirty]
    /\ iters' = iters + 1
    /\ mainAt' = "step"
    /\ UNCHANGED <<rom, machine, exitStatus, steps, pre, nib, readBytes, stored>>

Next ==
    \/ ProgramNotFound
    \/ ProgramEmpty
    \/ LoadProgram
    \/ SimStep
    \/ UpdateWindows

Spec == Init /\ [][Next]_vars

(* --------------- WriteNibble / ReadNibble on their own ------------------ *)

\* Buffers the round trip is tried on: byte i holds (f + i) mod 256, so that
\* neighbouring bytes differ and both nibbles of a byte are non-zero.
NibBuffers ==
    {[i \in 0..(RamSize - 1) |-> U8(f + i)] : f \in 0..MaxNibFill}

NibInit ==
    /\ Globals
    /\ ram \in NibBuffers
    /\ pre = Snapshot(OP_NOP, 0)
    /\ nib = NibIdle

\* WriteNibble(ram, addr, val) for any uint8_t addr and any 4-bit val
NibWrite ==
    /\ nib.at = "idle"
    /\ \E addr \in 0..255, val \in Nibble :
         /\ ram' = WriteNibble(ram, addr, val)
         /\ nib' = [at |-> "written", addr |-> addr, val |-> val, out |-> 0, old |-> ram]
    /\ UNCHANGED <<rom, pcPtr, tmpPcPtr, locPtr, regX, regY, regZ, useCarry, carry,
                   dirty, mainAt, exitStatus, steps, pre, readBytes, windows, history>>

\* ReadNibble(ram, addr) at the address just written
NibRead ==
    /\ nib.at = "written"
    /\ nib' = [nib EXCEPT !.at = "read", !.out = ReadNibble(ram, nib.addr)]
    /\ UNCHANGED <<rom, machine, dirty, mainAt, exitStatus, steps, pre,
                   readBytes, windows, history>>

NibNext == NibWrite \/ NibRead

NibbleSpec == NibInit /\ [][NibNext]_vars

(* ============================== properties ============================= *)

\* SimStep has just returned, having executed opcode op
AfterStep(op) == mainAt = "update" /\ pre.op = op

PreCarryIn == IF pre.useCarry THEN (IF pre.carry THEN 1 ELSE 0) ELSE 0

\* C1: a step that executes JMP, post-step increment included, leaves
\* pcPtr equal to the value tmpPcPtr had before the step, for every target
\* 0..255 (target 0 included, where the decrement wraps to 255).
C1_JmpCompensation ==
    AfterStep(OP_JMP) => pcPtr = pre.tmpPcPtr

\* PC1 0, PC2 1 built the target 0x10 and the JMP landed on 0x10
C1_Witness ==
    /\ AfterStep(OP_JMP)
    /\ rom[0] = 160 /\ rom[1] = 177
    /\ pre.tmpPcPtr = 16
    /\ pcPtr = 16

\* C2 (as claimed): a JMP step changes nothing but pcPtr: tmpPcPtr, locPtr,
\* the registers, carry, useCarry and ram keep their pre-step values.
C2_JmpChangesOnlyPc ==
    AfterStep(OP_JMP) =>
        /\ tmpPcPtr = pre.tmpPcPtr
        /\ locPtr = pre.locPtr
        /\ regX = pre.regX /\ regY = pre.regY /\ regZ = pre.regZ
        /\ carry = pre.carry /\ useCarry = pre.useCarry
        /\ ram = pre.ram

C4_PcAdvance ==
    (mainAt = "update" /\ pre.op # OP_JMP) => pcPtr = (pre.pcPtr + 1) % 256

\* a non-JMP step taken at pcPtr = 255 wrapped to 0
C4_Witness ==
    /\ mainAt = "update"
    /\ pre.op # OP_JMP
    /\ pre.pcPtr = 255
    /\ pcPtr = 0

\* C5: ADD leaves regZ = (X + Y + cin) mod 16 and carry = (X + Y + cin >= 16)
\* with cin = (useCarry ? carry : 0); and the program WTX 5, WTY 6, ADD ends
\* after 3 steps with regZ = 0xB, carry false, pcPtr = 3.
C5_Add ==
    /\ AfterStep(OP_ADD) =>
          LET sum == pre.regX + pre.regY + PreCarryIn
          IN  /\ regZ = sum % 16
              /\ carry = (sum >= 16)
    /\ (mainAt = "update" /\ steps = 3
            /\ rom[0] = 85 /\ rom[1] = 102 /\ rom[2] = 16) =>
          (regZ = 11 /\ carry = FALSE /\ pcPtr = 3)

\* X = 0xF, Y = 1 with useCarry and a prior carry: Z = 1, carry set
C5_Witness ==
    /\ AfterStep(OP_ADD)
    /\ pre.regX = 15 /\ pre.regY = 1
    /\ pre.useCarry /\ pre.carry
    /\ regZ = 1 /\ carry

\* C6: SUB leaves regZ = (X - s) mod 16 and carry = (X >= s), where
\* s = Y + (useCarry ? carry : 0) is not truncated (0..16).
C6_Sub ==
    AfterStep(OP_SUB) =>
        LET s == pre.regY + PreCarryIn
        IN  /\ regZ = (pre.regX - s) % 16
            /\ carry = (pre.regX >= s)

\* s = 16: X = 15, Y = 15 with a carry in gives Z = 15 and carry clear
C6_Witness ==
    /\ AfterStep(OP_SUB)
    /\ pre.regX = 15 /\ pre.regY = 15
    /\ pre.useCarry /\ pre.carry
    /\ regZ = 15 /\ ~carry

\* C7: ReadNibble after WriteNibble(buf, a, v) at the same address returns v,
\* the other nibble of byte a/2 is unchanged, every other byte is unchanged,
\* and the byte index a/2 is within 0..127.
C7_NibbleRoundTrip ==
    nib.at = "read" =>
        LET b == nib.addr \div 2
        IN  /\ nib.out = nib.val
            /\ b \in 0..127
            /\ b \in DOMAIN ram
            /\ IF nib.addr % 2 = 0
               THEN ram[b] \div 16 = nib.old[b] \div 16
               ELSE ram[b] % 16 = nib.old[b] % 16
            /\ \A i \in 0..127 : i # b => ram[i] = nib.old[i]

\* the last nibble (high half of byte 127) overwritten with a new value
\* while the low half of that byte was non-zero
C7_Witness ==
    /\ nib.at = "read"
    /\ nib.addr = 255
    /\ nib.old[127] \div 16 # nib.val
    /\ nib.old[127] % 16 # 0
    /\ nib.out = nib.val

\* C8: a ZTR step leaves screenDirty true iff locPtr < 4 at the write, and
\* always leaves ramDirty true.
C8_ScreenDirtyScoping ==
    AfterStep(OP_ZTR) =>
        /\ screenDirty = (pre.locPtr < 4)
        /\ ramDirty = TRUE

\* ZTR at loc = 4: RAM flagged, screen not
C8_Witness ==
    /\ AfterStep(OP_ZTR)
    /\ pre.locPtr = 4
    /\ ~screenDirty
    /\ ramDirty

\* C9 (as claimed): a ZTR step leaves screenDirty true when locPtr is in
\* 0..7 (the first 4 bytes of ram) and false when locPtr >= 8.
C9_ScreenFirstFourBytes ==
    AfterStep(OP_ZTR) =>
        /\ (pre.locPtr \in 0..7 => screenDirty)
        /\ (pre.locPtr >= 8 => ~screenDirty)

\* C9 (amended): a ZTR step leaves screenDirty true exactly when locPtr is
\* one of the nibbles UpdateScreen renders, 0..3 (the first 2 bytes of ram).
C9_ScreenRenderedNibbles ==
    /\ ScreenNibbles = 0..3
    /\ AfterStep(OP_ZTR) =>
          /\ (pre.locPtr \in ScreenNibbles => screenDirty)
          /\ (pre.locPtr \notin ScreenNibbles => ~screenDirty)

\* ZTR at loc = 7, inside the first 4 bytes: screen not flagged
C9_Witness ==
    /\ AfterStep(OP_ZTR)
    /\ pre.locPtr = 7
    /\ ~screenDirty

\* The signals a step would report if it computed them afresh
FreshRegs(op) == op \in {1, 2, 3, 4, 5, 6, 7, 9, 10, 11, 13, 14}
FreshRam(op) == op = 8
FreshScreen(op, l) == op = 8 /\ l < 4

\* C10 (as claimed): after every step, the first included, the three dirty
\* flags are a function of the opcode executed and locPtr alone; after a NOP
\* step all three are false.
C10_SignalsAlwaysFresh ==
    mainAt = "update" =>
        /\ regsDirty = FreshRegs(pre.op)
        /\ ramDirty = FreshRam(pre.op)
        /\ screenDirty = FreshScreen(pre.op, pre.locPtr)

\* C10 (amended): SimStep only raises regsDirty and ramDirty and assigns
\* screenDirty only in ZTR, so the flags after a step are those before it
\* joined with the step's own; main has cleared all three before every step
\* but the first, so from the second step on they are a function of the
\* opcode and locPtr alone, and after the first step all three are true.
C10_SignalsFreshAfterFirstStep ==
    mainAt = "update" =>
        /\ regsDirty = (pre.regsDirty \/ FreshRegs(pre.op))
        /\ ramDirty = (pre.ramDirty \/ FreshRam(pre.op))
        /\ screenDirty = IF pre.op = OP_ZTR THEN pre.locPtr < 4 ELSE pre.screenDirty
        /\ steps >= 2 =>
              /\ regsDirty = FreshRegs(pre.op)
              /\ ramDirty = FreshRam(pre.op)
              /\ screenDirty = FreshScreen(pre.op, pre.locPtr)
        /\ steps = 1 => (regsDirty /\ ramDirty /\ screenDirty)

\* a NOP step after the first leaves all three flags false
C10_Witness ==
    /\ AfterStep(OP_NOP)
    /\ steps >= 2
    /\ ~regsDirty /\ ~ramDirty /\ ~screenDirty

\* The nibble at address a of a byte buffer, low half first
NibbleAt(buf, a) == IF a % 2 = 0 THEN buf[a \div 2] % 16 ELSE buf[a \div 2] \div 16

\* An iteration of main's loop has just completed
IterationEnd == mainAt = "step" /\ iters >= 1

\* C11 (as claimed): after every step whose opcode writes one of regX, regY,
\* regZ, locPtr or tmpPcPtr (JMP included), regsDirty is true.
C11_RegisterWritesSetRegsDirty ==
    (mainAt = "update"
        /\ pre.op \in {OP_ADD, OP_SUB, OP_WT1, OP_WT2, OP_WTX, OP_WTY, OP_WTZ,
                       OP_RTZ, OP_RTX, OP_RTY, OP_PC1, OP_PC2, OP_JMP})
    => regsDirty

\* C12: every loop iteration runs exactly one SimStep, then invokes the
\* update of each dirty flag that is set and clears it: all three flags are
\* false at the end of every iteration and at the start of every step after
\* the first, and an update ran only if that iteration's step set its flag
\* or the flag was still set from initialisation (first iteration).
C12_DriverLoop ==
    /\ mainAt = "step" => steps = iters
    /\ mainAt = "update" => steps = iters + 1
    /\ (mainAt = "update" /\ steps >= 2) =>
          (~pre.regsDirty /\ ~pre.ramDirty /\ ~pre.screenDirty)
    /\ IterationEnd =>
          /\ ~regsDirty /\ ~ramDirty /\ ~screenDirty
          /\ ran.regs = (iters = 1 \/ FreshRegs(pre.op))
          /\ ran.mem = (iters = 1 \/ FreshRam(pre.op))
          /\ ran.screen = (iters = 1 \/ FreshScreen(pre.op, pre.locPtr))

\* a later iteration whose step was a ZTR outside the screen: only the
\* memory update ran, and every flag is clear again
C12_Witness ==
    /\ IterationEnd
    /\ iters >= 2
    /\ pre.op = OP_ZTR
    /\ ran.mem /\ ~ran.regs /\ ~ran.screen
    /\ ~regsDirty /\ ~ramDirty /\ ~screenDirty

C14_RomImmutable ==
    /\ [](mainAt \in {"step", "update"} =>
            /\ readBytes \in 1..255
            /\ rom[255] = 0
            /\ \A i \in 0..255 : i >= readBytes => rom[i] = 0)
    /\ [][mainAt # "load" => rom' = rom]_vars

\* a 256-byte file: 255 bytes loaded, rom[255] still zero after a step
C14_Witness ==
    /\ mainAt = "update"
    /\ readBytes = 255
    /\ rom[254] = 1
    /\ rom[255] = 0

C16_LoadErrorsExitOne ==
    /\ mainAt = "exit" => (exitStatus = 1 /\ steps = 0)
    /\ steps >= 1 => readBytes >= 1

C18_RegisterPanelFresh ==
    IterationEnd =>
        regWin = [X |-> regX, Y |-> regY, Z |-> regZ, PC |-> pcPtr, LC |-> locPtr]

C20_ScreenNeverSkipped ==
    /\ (mainAt = "update" /\ screenDirty) => ramDirty
    /\ IterationEnd =>
          /\ ran.screen => ran.drawn
          /\ \A row \in 0..7 : \A col \in 0..3 :
                scrWin[row][col] =
                    ((NibbleAt(ram, row \div 2) \div (2 ^ (3 - col))) % 2 = 1)

\* after a ZTR of 9 to nibble 3 the last two lines show #..#
C20_Witness ==
    /\ IterationEnd
    /\ iters >= 2
    /\ pre.op = OP_ZTR /\ pre.locPtr = 3
    /\ ran.screen /\ ran.drawn
    /\ NibbleAt(ram, 3) = 9
    /\ scrWin[7] = [col \in 0..3 |-> col \in {0, 3}]

====
